---- MODULE Spec2Model ----
(***************************************************************************)
(* Othello (src/othello.py): the rules engine (init_board, valid_moves,    *)
(* make_move, greedy_choice, scores) and the game loop of main(), with the *)
(* pygame event queue as the environment.                                  *)
(*                                                                         *)
(* The loop of main() is cut at its loop heads: pc is the position of the  *)
(* program, and `pending` is the number of events of the batch returned by *)
(* the last pygame.event.get() that the for-loop has not dispatched yet.   *)
(* The content of an event is chosen when it is dispatched.                *)
(***************************************************************************)
EXTENDS Integers, Sequences, FiniteSets, TLC

(* ---------------------------------------------------------------------- *)
(* Program constants                                                       *)
(* ---------------------------------------------------------------------- *)
BOARD_SIZE == 8
CELL_SIZE == 60
BLACK == "B"
WHITE == "W"
EMPTY == "."
None == << >>

(* ---------------------------------------------------------------------- *)
(* Bounds of the model                                                     *)
(* ---------------------------------------------------------------------- *)
\* make_move is called at most MaxMoves times in a run
MaxMoves == 3
\* pygame.event.get() returns at most MaxBatch events
MaxBatch == 2
\* number of cells of the last row that SpecBoards populates freely
WinWidth == 3

Players == {BLACK, WHITE}
Coords == 0 .. (BOARD_SIZE - 1)
Cells == Coords \X Coords

VARIABLES board, player, skipped, running, waiting, moves, pc, pending,
          handled, nmoves, b, w, verdict

vars == << board, player, skipped, running, waiting, moves, pc, pending,
           handled, nmoves, b, w, verdict >>

(* ---------------------------------------------------------------------- *)
(* Rules engine                                                            *)
(* ---------------------------------------------------------------------- *)
\* init_board with the two colours exchanged
init_board_Swapped ==
  LET mid == BOARD_SIZE \div 2
  IN  [c \in Cells |->
         IF c = << mid - 1, mid - 1 >> \/ c = << mid, mid >> THEN BLACK
         ELSE IF c = << mid - 1, mid >> \/ c = << mid, mid - 1 >> THEN WHITE
         ELSE EMPTY]

\* init_board with the discs of each colour side by side in a row
init_board_Rows ==
  LET mid == BOARD_SIZE \div 2
  IN  [c \in Cells |->
         IF c = << mid - 1, mid - 1 >> \/ c = << mid - 1, mid >> THEN WHITE
         ELSE IF c = << mid, mid >> \/ c = << mid, mid - 1 >> THEN BLACK
         ELSE EMPTY]

init_board ==
  LET mid == BOARD_SIZE \div 2
  IN  [c \in Cells |->
         IF c = << mid - 1, mid - 1 >> \/ c = << mid, mid >> THEN WHITE
         ELSE IF c = << mid - 1, mid >> \/ c = << mid, mid - 1 >> THEN BLACK
         ELSE EMPTY]

on_board(x, y) == 0 <= x /\ x < BOARD_SIZE /\ 0 <= y /\ y < BOARD_SIZE

opponent(p) == IF p = BLACK THEN WHITE ELSE BLACK

\* DirFlips without the bracketing test: any run of opponent discs counts
DirFlips_NoAnchor(bd, p, x, y, d) ==
  LET dx == d[1]
      dy == d[2]
      opp == opponent(p)
      run == {k \in 1 .. BOARD_SIZE :
                \A j \in 1 .. k :
                  /\ on_board(x + j * dx, y + j * dy)
                  /\ bd[<< x + j * dx, y + j * dy >>] = opp}
  IN  [k \in 1 .. Cardinality(run) |-> << x + k * dx, y + k * dy >>]

\* directions without the four diagonals
directions_Orthogonal ==
  << << -1, 0 >>, << 0, -1 >>, << 0, 1 >>, << 1, 0 >> >>

directions ==
  << << -1, -1 >>, << -1, 0 >>, << -1, 1 >>,
     << 0, -1 >>,               << 0, 1 >>,
     << 1, -1 >>,  << 1, 0 >>,  << 1, 1 >> >>

\* the while loop of valid_moves: the opponent discs met from (nx, ny) on
RECURSIVE Walk(_, _, _, _, _, _)
Walk(bd, opp, nx, ny, dx, dy) ==
  IF on_board(nx, ny) /\ bd[<< nx, ny >>] = opp
  THEN << << nx, ny >> >> \o Walk(bd, opp, nx + dx, ny + dy, dx, dy)
  ELSE << >>

\* what one direction adds to flips: the path, if it is bracketed
DirFlips(bd, p, x, y, d) ==
  LET dx == d[1]
      dy == d[2]
      path == Walk(bd, opponent(p), x + dx, y + dy, dx, dy)
      nx == x + dx * (Len(path) + 1)
      ny == y + dy * (Len(path) + 1)
  IN  IF path # << >> /\ on_board(nx, ny) /\ bd[<< nx, ny >>] = p
      THEN path
      ELSE << >>

\* flips of the empty cell (x, y): the paths of directions i .. 8, in order
RECURSIVE CellFlips(_, _, _, _, _)
CellFlips(bd, p, x, y, i) ==
  IF i > Len(directions) THEN << >>
  ELSE DirFlips(bd, p, x, y, directions[i]) \o CellFlips(bd, p, x, y, i + 1)

valid_moves(bd, p) ==
  LET legal == {c \in Cells :
                  bd[c] = EMPTY /\ CellFlips(bd, p, c[1], c[2], 1) # << >>}
  IN  [c \in legal |-> CellFlips(bd, p, c[1], c[2], 1)]

\* the for loop of make_move
RECURSIVE ApplyFlips(_, _, _)
ApplyFlips(bd, p, flips) ==
  IF flips = << >> THEN bd
  ELSE ApplyFlips([bd EXCEPT ![Head(flips)] = p], p, Tail(flips))

\* make_move that places the disc and flips nothing
make_move_NoFlip(bd, p, move, flips) == [bd EXCEPT ![move] = p]

\* make_move that removes the captured discs instead of flipping them
make_move_Capture(bd, p, move, flips) ==
  ApplyFlips([bd EXCEPT ![move] = p], EMPTY, flips)

make_move(bd, p, move, flips) ==
  ApplyFlips([bd EXCEPT ![move] = p], p, flips)

max_flips(mv) ==
  CHOOSE n \in {Len(mv[c]) : c \in DOMAIN mv} :
    \A c \in DOMAIN mv : Len(mv[c]) <= n

\* greedy_choice that picks among all moves, not the best ones
greedy_choice_Any(mv) ==
  IF DOMAIN mv = {} THEN {None}
  ELSE DOMAIN mv

\* the values greedy_choice can return: random.choice picks any best move
greedy_choice(mv) ==
  IF DOMAIN mv = {} THEN {None}
  ELSE {c \in DOMAIN mv : Len(mv[c]) = max_flips(mv)}

Count(bd, colour) == Cardinality({c \in Cells : bd[c] = colour})

\* scores with the two counts in the wrong order
scores_Swapped(bd) == << Count(bd, WHITE), Count(bd, BLACK) >>

scores(bd) == << Count(bd, BLACK), Count(bd, WHITE) >>

\* Verdict that gives a draw to the human
Verdict_DrawWins(nb, nw) ==
  IF nb >= nw THEN "You win!"
  ELSE "Computer wins!"

Verdict(nb, nw) ==
  IF nb > nw THEN "You win!"
  ELSE IF nw > nb THEN "Computer wins!"
  ELSE "It's a draw!"

(* ---------------------------------------------------------------------- *)
(* The environment: pygame events                                          *)
(* ---------------------------------------------------------------------- *)
\* pixel coordinates inside the window: the middle pixel of every cell
Pixels == {c * CELL_SIZE + CELL_SIZE \div 2 : c \in Coords}

Events ==
  {[type |-> "QUIT", pos |-> << 0, 0 >>]} \cup
  {[type |-> "MOUSEBUTTONDOWN", pos |-> << px, py >>] :
     px \in Pixels, py \in Pixels}

\* the cell of a click: (row, col) = (pos[1] // CELL_SIZE, pos[0] // CELL_SIZE)
ClickCell(pos) == << pos[2] \div CELL_SIZE, pos[1] \div CELL_SIZE >>

\* what the event taken from the queue is, seen from outside the program:
\* a window close, a click on a key of the current map, or any other click
EventKind(event) ==
  IF event.type = "QUIT" THEN "QUIT"
  ELSE IF ClickCell(event.pos) \in DOMAIN moves THEN "HIT"
  ELSE "MISS"

(* ---------------------------------------------------------------------- *)
(* main()                                                                  *)
(* ---------------------------------------------------------------------- *)
InitLocals ==
  /\ skipped = 0
  /\ running = TRUE
  /\ waiting = FALSE
  /\ moves = << >>
  /\ pc = "loop"
  /\ pending = 0
  /\ handled = "NONE"
  /\ nmoves = 0
  /\ b = 0
  /\ w = 0
  /\ verdict = ""

Init ==
  /\ board = init_board
  /\ player = BLACK
  /\ InitLocals

\* EvalPass that leaves the loop on the first pass
EvalPass_BreakOnFirst ==
  /\ pc = "loop"
  /\ running
  /\ DOMAIN valid_moves(board, player) = {}
  /\ moves' = valid_moves(board, player)
  /\ skipped' = skipped + 1
  /\ pc' = "final"
  /\ player' = player
  /\ UNCHANGED << board, running, waiting, pending, handled, nmoves, b, w,
                  verdict >>

\* EvalPass that does not hand the turn to the opponent
EvalPass_NoSwitch ==
  /\ pc = "loop"
  /\ running
  /\ DOMAIN valid_moves(board, player) = {}
  /\ moves' = valid_moves(board, player)
  /\ skipped' = skipped + 1
  /\ pc' = IF skipped + 1 = 2 THEN "final" ELSE "loop"
  /\ UNCHANGED << board, player, running, waiting, pending, handled, nmoves,
                  b, w, verdict >>

\* while running: ... if not moves: skipped += 1; if skipped == 2: break;
\* player = opponent(player); continue
EvalPass ==
  /\ pc = "loop"
  /\ running
  /\ DOMAIN valid_moves(board, player) = {}
  /\ moves' = valid_moves(board, player)
  /\ skipped' = skipped + 1
  /\ IF skipped + 1 = 2
     THEN pc' = "final" /\ player' = player
     ELSE pc' = "loop" /\ player' = opponent(player)
  /\ UNCHANGED << board, running, waiting, pending, handled, nmoves, b, w,
                  verdict >>

\* EvalMove whose probing leaves a disc of the player on a legal cell
EvalMove_Scribble ==
  /\ pc = "loop"
  /\ running
  /\ DOMAIN valid_moves(board, player) # {}
  /\ moves' = valid_moves(board, player)
  /\ board' = [board EXCEPT
                 ![CHOOSE c \in DOMAIN valid_moves(board, player) : TRUE]
                   = player]
  /\ skipped' = 0
  /\ IF player = BLACK
     THEN waiting' = TRUE /\ pc' = "wait"
     ELSE waiting' = waiting /\ pc' = "white"
  /\ UNCHANGED << player, running, pending, handled, nmoves, b, w, verdict >>

\* EvalMove that does not reset the pass counter
EvalMove_NoReset ==
  /\ pc = "loop"
  /\ running
  /\ DOMAIN valid_moves(board, player) # {}
  /\ moves' = valid_moves(board, player)
  /\ IF player = BLACK
     THEN waiting' = TRUE /\ pc' = "wait"
     ELSE waiting' = waiting /\ pc' = "white"
  /\ UNCHANGED << board, player, skipped, running, pending, handled, nmoves,
                  b, w, verdict >>

\* while running: ... moves non-empty: skipped = 0; branch on the player
EvalMove ==
  /\ pc = "loop"
  /\ running
  /\ DOMAIN valid_moves(board, player) # {}
  /\ moves' = valid_moves(board, player)
  /\ skipped' = 0
  /\ IF player = BLACK
     THEN waiting' = TRUE /\ pc' = "wait"
     ELSE waiting' = waiting /\ pc' = "white"
  /\ UNCHANGED << board, player, running, pending, handled, nmoves, b, w,
                  verdict >>

\* while running: the condition is false
LoopExit ==
  /\ pc = "loop"
  /\ ~running
  /\ pc' = "final"
  /\ UNCHANGED << board, player, skipped, running, waiting, moves, pending,
                  handled, nmoves, b, w, verdict >>

\* while waiting and running: for event in pygame.event.get()
HumanPoll ==
  /\ pc = "wait"
  /\ waiting /\ running
  /\ \E n \in 0 .. MaxBatch : pending' = n
  /\ pc' = "bevents"
  /\ UNCHANGED << board, player, skipped, running, waiting, moves, handled,
                  nmoves, b, w, verdict >>

\* while waiting and running: the condition is false
HumanDone ==
  /\ pc = "wait"
  /\ ~(waiting /\ running)
  /\ pc' = "loop"
  /\ UNCHANGED << board, player, skipped, running, waiting, moves, pending,
                  handled, nmoves, b, w, verdict >>

\* if event.type == pygame.QUIT: running = False; waiting = False
HumanQuit ==
  /\ pc = "bevents"
  /\ pending > 0
  /\ \E event \in Events :
       /\ event.type = "QUIT"
       /\ handled' = EventKind(event)
  /\ running' = FALSE
  /\ waiting' = FALSE
  /\ pending' = pending - 1
  /\ UNCHANGED << board, player, skipped, moves, pc, nmoves, b, w, verdict >>

\* ClickEffect that accepts a click on any empty cell
ClickEffect_AnyEmpty(move) ==
  IF board[move] = EMPTY
  THEN /\ nmoves < MaxMoves
       /\ board' = make_move(board, player, move,
                             IF move \in DOMAIN moves THEN moves[move]
                             ELSE << >>)
       /\ player' = opponent(player)
       /\ waiting' = FALSE
       /\ nmoves' = nmoves + 1
  ELSE UNCHANGED << board, player, waiting, nmoves >>

\* the body of the MOUSEBUTTONDOWN branch for the clicked cell
ClickEffect(move) ==
  IF move \in DOMAIN moves
  THEN /\ nmoves < MaxMoves
       /\ board' = make_move(board, player, move, moves[move])
       /\ player' = opponent(player)
       /\ waiting' = FALSE
       /\ nmoves' = nmoves + 1
  ELSE UNCHANGED << board, player, waiting, nmoves >>

\* elif event.type == pygame.MOUSEBUTTONDOWN: ...
HumanClick ==
  /\ pc = "bevents"
  /\ pending > 0
  /\ \E event \in Events :
       /\ event.type = "MOUSEBUTTONDOWN"
       /\ handled' = EventKind(event)
       /\ ClickEffect(ClickCell(event.pos))
  /\ pending' = pending - 1
  /\ UNCHANGED << skipped, running, moves, pc, b, w, verdict >>

\* the for loop is over: clock.tick(60)
HumanTick ==
  /\ pc = "bevents"
  /\ pending = 0
  /\ pc' = "wait"
  /\ UNCHANGED << board, player, skipped, running, waiting, moves, pending,
                  handled, nmoves, b, w, verdict >>

\* else: move = greedy_choice(moves); if move: make_move(...);
\* player = opponent(player); for event in pygame.event.get()
ComputerMove ==
  /\ pc = "white"
  /\ nmoves < MaxMoves
  /\ \E move \in greedy_choice(moves) :
       IF move # None
       THEN /\ board' = make_move(board, player, move, moves[move])
            /\ nmoves' = nmoves + 1
       ELSE UNCHANGED << board, nmoves >>
  /\ player' = opponent(player)
  /\ \E n \in 0 .. MaxBatch : pending' = n
  /\ pc' = "wevents"
  /\ UNCHANGED << skipped, running, waiting, moves, handled, b, w, verdict >>

\* for event in pygame.event.get(): if event.type == pygame.QUIT: ...
ComputerEvent ==
  /\ pc = "wevents"
  /\ pending > 0
  /\ \E event \in Events :
       /\ handled' = EventKind(event)
       /\ IF event.type = "QUIT"
          THEN running' = FALSE
          ELSE running' = running
  /\ pending' = pending - 1
  /\ UNCHANGED << board, player, skipped, waiting, moves, pc, nmoves, b, w,
                  verdict >>

\* the for loop is over: clock.tick(60)
ComputerTick ==
  /\ pc = "wevents"
  /\ pending = 0
  /\ pc' = "loop"
  /\ UNCHANGED << board, player, skipped, running, waiting, moves, pending,
                  handled, nmoves, b, w, verdict >>

\* after the loop: b, w = scores(board); print the score and the verdict
GameOver ==
  /\ pc = "final"
  /\ b' = scores(board)[1]
  /\ w' = scores(board)[2]
  /\ verdict' = Verdict(scores(board)[1], scores(board)[2])
  /\ pc' = "done"
  /\ UNCHANGED << board, player, skipped, running, waiting, moves, pending,
                  handled, nmoves >>

Next ==
  \/ EvalPass
  \/ EvalMove
  \/ LoopExit
  \/ HumanPoll
  \/ HumanDone
  \/ HumanQuit
  \/ HumanClick
  \/ HumanTick
  \/ ComputerMove
  \/ ComputerEvent
  \/ ComputerTick
  \/ GameOver

Spec == Init /\ [][Next]_vars

(* ---------------------------------------------------------------------- *)
(* The same loop started on every board of a bounded family, by either     *)
(* player: the starting board of init_board, and the boards whose discs    *)
(* all lie in the first WinWidth cells of the last row.                    *)
(* ---------------------------------------------------------------------- *)
Window == {c \in Cells : c[1] = BOARD_SIZE - 1 /\ c[2] < WinWidth}

Boards ==
  {init_board} \cup
  {[c \in Cells |-> IF c \in Window THEN f[c] ELSE EMPTY] :
     f \in [Window -> {BLACK, WHITE, EMPTY}]}

InitBoards ==
  /\ board \in Boards
  /\ player \in Players
  /\ InitLocals

SpecBoards == InitBoards /\ [][Next]_vars

\* main() is one sequential program: a turn evaluation or the final step
\* that it has reached is eventually executed
FairBoards == SpecBoards /\ WF_vars(EvalPass) /\ WF_vars(GameOver)

(* ---------------------------------------------------------------------- *)
(* Properties                                                              *)
(* ---------------------------------------------------------------------- *)
Dirs8 == ({-1, 0, 1} \X {-1, 0, 1}) \ {<< 0, 0 >>}

At(c, d, k) == << c[1] + k * d[1], c[2] + k * d[2] >>

\* cell f lies between c and a disc of p, on a line from c in one of the 8
\* directions whose cells up to that disc all hold the opponent's colour
Bracketed(bd, p, c, f) ==
  \E d \in Dirs8 : \E k \in 1 .. BOARD_SIZE :
    /\ f = At(c, d, k)
    /\ \E n \in (k + 1) .. BOARD_SIZE :
         /\ At(c, d, n) \in Cells
         /\ bd[At(c, d, n)] = p
         /\ \A j \in 1 .. (n - 1) : bd[At(c, d, j)] = opponent(p)

HasMove(bd, p) == DOMAIN valid_moves(bd, p) # {}

\* neither side has a legal move
Dead(bd) == ~HasMove(bd, BLACK) /\ ~HasMove(bd, WHITE)

Total(bd) == Count(bd, BLACK) + Count(bd, WHITE)

\* the map held in moves is the one just computed by valid_moves for the
\* current board and the side to move: no event has touched either since
Fresh ==
  \/ pc = "white"
  \/ pc = "wait" /\ waiting /\ running

\* C1: whenever valid_moves has returned a map for the board and the side
\* to move, each move of the map is on an Empty cell, and its flips are
\* non-empty, all of the opponent's colour, each on a straight line of
\* contiguous opponent discs that starts next to the move cell and ends at a
\* disc of the player's colour.
C1_MovesBracketed ==
  Fresh =>
    \A c \in DOMAIN moves :
      /\ board[c] = EMPTY
      /\ Len(moves[c]) > 0
      /\ \A i \in 1 .. Len(moves[c]) :
           /\ board[moves[c][i]] = opponent(player)
           /\ Bracketed(board, player, c, moves[c][i])

\* a turn whose map holds a move that flips two discs or more
C1_Witness ==
  /\ Fresh
  /\ \E c \in DOMAIN moves : Len(moves[c]) >= 2

\* C2 as stated: on the starting board (2,4) is legal for Black, the disc at
\* (3,4) is White, and Black's move at (2,4) flips exactly one White disc,
\* leaving 4 Black and 1 White.
C2_Original ==
  (pc = "loop" /\ nmoves = 0) =>
    \A mv \in {valid_moves(board, BLACK)} :
        /\ << 2, 4 >> \in DOMAIN mv
        /\ board[<< 3, 4 >>] = WHITE
        /\ Len(mv[<< 2, 4 >>]) = 1
        /\ scores(make_move(board, BLACK, << 2, 4 >>, mv[<< 2, 4 >>]))
             = << 4, 1 >>

\* C2 amended: on the starting board (2,3) is legal for Black, the disc at
\* (3,3) is White, and Black's move at (2,3) flips exactly that one White
\* disc, leaving 4 Black and 1 White.
C2_FirstMove ==
  /\ (pc = "wait" /\ nmoves = 0) =>
       /\ board = init_board
       /\ << 2, 3 >> \in DOMAIN moves
       /\ board[<< 3, 3 >>] = WHITE
       /\ moves[<< 2, 3 >>] = << << 3, 3 >> >>
  /\ (nmoves = 1 /\ board[<< 2, 3 >>] = BLACK) =>
       /\ {c \in Cells : init_board[c] = WHITE /\ board[c] = BLACK}
            = {<< 3, 3 >>}
       /\ scores(board) = << 4, 1 >>

\* Black has played (2,3) as the first move of the game
C2_Witness ==
  /\ nmoves = 1
  /\ board[<< 2, 3 >>] = BLACK
  /\ player = WHITE
  /\ handled = "HIT"

\* C3: a turn evaluation that finds an empty map leaves the board alone; if
\* the opponent has a legal move it only passes the turn, and the opponent's
\* evaluation then starts a move; if the previous evaluation was a pass too
\* it ends the loop.
C3_PassOrEnd ==
  [][(pc = "loop" /\ running) =>
       IF HasMove(board, player)
       THEN pc' \in {"wait", "white"} /\ skipped' = 0 /\ player' = player
       ELSE /\ board' = board
            /\ running'
            /\ IF HasMove(board, opponent(player))
               THEN pc' = "loop" /\ player' = opponent(player)
               ELSE /\ skipped = 0 =>
                         pc' = "loop" /\ player' = opponent(player)
                    /\ skipped = 1 => pc' = "final"]_vars

\* one side has just passed and the other side has a legal move
C3_Witness ==
  /\ pc = "loop"
  /\ running
  /\ skipped = 1
  /\ ~HasMove(board, opponent(player))
  /\ HasMove(board, player)

\* C4 as stated: the final-score step is reached only by two consecutive
\* passes, in a state where neither side has a legal move.
C4_OnlyByTwoPasses ==
  pc \in {"final", "done"} => (skipped = 2 /\ Dead(board))

\* C5: for every (move, flips) pair of the map valid_moves has returned for
\* the board and the side to move, make_move leaves the move cell and every
\* flip cell in the player's colour and raises the number of the player's
\* discs by exactly 1 + len(flips).
C5_MakeMove ==
  Fresh =>
    \A c \in DOMAIN moves :
      \A after \in {make_move(board, player, c, moves[c])} :
        /\ after[c] = player
        /\ \A i \in 1 .. Len(moves[c]) : after[moves[c][i]] = player
        /\ Count(after, player) = Count(board, player) + 1 + Len(moves[c])

\* after a move applied by a click, the computer's map holds a move that
\* flips two discs or more
C5_Witness ==
  /\ pc = "white"
  /\ handled = "HIT"
  /\ nmoves >= 1
  /\ \E c \in DOMAIN moves : Len(moves[c]) >= 2

\* C6: the number of discs on the board never decreases in a step of the
\* game and never exceeds 64.
C6_DiscsGrow ==
  [][board' # board =>
       /\ Total(board') >= Total(board)
       /\ Total(board') <= BOARD_SIZE * BOARD_SIZE]_vars

\* two moves have been applied and each has added a disc
C6_Witness ==
  /\ nmoves = 2
  /\ Total(board) = Total(init_board) + 2

\* C7 as stated: once a QUIT event has been processed no move is applied,
\* no turn is evaluated and the final-score step is not entered.
C7_QuitAborts ==
  [][~running =>
       /\ board' = board
       /\ moves' = moves
       /\ pc' \notin {"final", "done"}]_vars

\* C8: on the non-empty map of a turn greedy_choice returns, whatever the
\* tie-break, a key of the map whose flips are as many as those of any key;
\* on the empty map of a pass it returns None.
C8_Greedy ==
  /\ Fresh =>
       /\ greedy_choice(moves) # {}
       /\ \A r \in greedy_choice(moves) :
            /\ r \in DOMAIN moves
            /\ \A c \in DOMAIN moves : Len(moves[c]) <= Len(moves[r])
  /\ (pc \in {"loop", "final"} /\ DOMAIN moves = {}) =>
       greedy_choice(moves) = {None}

\* the computer is about to choose among moves of different flip counts
C8_Witness ==
  /\ pc = "white"
  /\ \E c \in DOMAIN moves : \E d \in DOMAIN moves :
       Len(moves[c]) < Len(moves[d])

\* C9: dispatching a click on a cell that is not a key of the current map
\* changes neither the board, the side to move, the pass counter nor the
\* map, does not stop the loop, and leaves the human waiting for a click.
C9_MissIgnored ==
  [][(pc = "bevents" /\ pending' = pending - 1 /\ handled' = "MISS") =>
       /\ UNCHANGED << board, player, skipped, moves, nmoves >>
       /\ UNCHANGED << running, waiting, pc >>]_vars

\* the human still has the turn after a click outside the map
C9_Witness ==
  /\ pc = "bevents"
  /\ handled = "MISS"
  /\ waiting
  /\ running
  /\ player = BLACK

\* C10: started on a board where neither side has a legal move, the loop
\* evaluates two turns (one pass per side), never changes the board, and
\* reaches the final step, whose score is the disc tally of that board.
C10_DeadBoard ==
  /\ [][(nmoves = 0 /\ board' # board) => ~Dead(board)]_vars
  /\ [](nmoves = 0 =>
          \/ pc = "loop" /\ skipped \in {0, 1}
          \/ pc \in {"final", "done"} /\ skipped = 2 /\ running
          \/ ~Dead(board))
  /\ []((nmoves = 0 /\ pc = "loop" /\ skipped = 0 /\ Dead(board)) =>
          <>(/\ pc = "done"
             /\ skipped = 2
             /\ nmoves = 0
             /\ b = Count(board, BLACK)
             /\ w = Count(board, WHITE)))

\* the game on a dead board with discs of both colours is over
C10_Witness ==
  /\ pc = "done"
  /\ nmoves = 0
  /\ Dead(board)
  /\ Count(board, BLACK) > 0
  /\ Count(board, WHITE) > 0

\* C11: init_board is an 8x8 board with exactly 2 Black and 2 White discs on
\* the four centre cells (3,3), (3,4), (4,3), (4,4), the two discs of each
\* colour diagonal to each other, and every other cell Empty.
C11_InitBoard ==
  nmoves = 0 =>
    /\ DOMAIN board = (0 .. 7) \X (0 .. 7)
    /\ Cardinality({c \in DOMAIN board : board[c] = BLACK}) = 2
    /\ Cardinality({c \in DOMAIN board : board[c] = WHITE}) = 2
    /\ {c \in DOMAIN board : board[c] # EMPTY}
         = {<< 3, 3 >>, << 3, 4 >>, << 4, 3 >>, << 4, 4 >>}
    /\ board[<< 3, 3 >>] = board[<< 4, 4 >>]
    /\ board[<< 3, 4 >>] = board[<< 4, 3 >>]
    /\ board[<< 3, 3 >>] # board[<< 3, 4 >>]

\* the first turn has been evaluated on the board of init_board
C11_Witness ==
  /\ nmoves = 0
  /\ pc = "wait"
  /\ board = init_board
  /\ Cardinality(DOMAIN moves) = 4

\* C12 as stated: Black moves first; after a completed turn (a move or a
\* pass) the side to move is the opponent of the side that acted; every disc
\* placed or flipped in a turn takes the colour of the side of that turn.
C12_Alternation ==
  [][/\ (pc = "loop" /\ nmoves = 0 /\ skipped = 0) => player = BLACK
     /\ (pc = "wait" /\ pc' = "loop" /\ running) => player = WHITE
     /\ (pc = "wevents" /\ pc' = "loop") => player = BLACK
     /\ (pc = "loop" /\ pc' = "loop") => player' = opponent(player)
     /\ (pc = "bevents" /\ board' # board) =>
          \A c \in Cells : board'[c] # board[c] => board'[c] = BLACK
     /\ (pc = "white" /\ board' # board) =>
          \A c \in Cells : board'[c] # board[c] => board'[c] = WHITE]_vars

\* C13: in the final step the reported score is the number of Black cells
\* and of White cells of the final board, and exactly one verdict is given:
\* the human wins iff b > w, the computer iff w > b, a draw iff b = w.
C13_ScoreAndVerdict ==
  pc = "done" =>
    /\ b = Cardinality({c \in Cells : board[c] = BLACK})
    /\ w = Cardinality({c \in Cells : board[c] = WHITE})
    /\ verdict \in {"You win!", "Computer wins!", "It's a draw!"}
    /\ verdict = "You win!" <=> b > w
    /\ verdict = "Computer wins!" <=> w > b
    /\ verdict = "It's a draw!" <=> b = w

\* a game that was played is over with a draw
C13_Witness ==
  /\ pc = "done"
  /\ nmoves >= 1
  /\ b = w
  /\ verdict = "It's a draw!"

\* C14: a turn evaluation with an empty map adds 1 to the pass counter and
\* leaves the board alone; if it is the first pass the turn goes to the
\* opponent and the counter stays 1; a turn evaluation with a non-empty map
\* resets the counter to 0; no other step changes it, so it is in {0,1,2}.
C14_PassCounter ==
  [][/\ (pc = "loop" /\ running) =>
          IF DOMAIN moves' = {}
          THEN /\ skipped' = skipped + 1
               /\ board' = board
               /\ skipped' = 1 =>
                    pc' = "loop" /\ player' = opponent(player)
          ELSE skipped' = 0
     /\ ~(pc = "loop" /\ running) => skipped' = skipped
     /\ skipped' \in {0, 1, 2}]_vars

\* moves were applied, then one side has passed: the counter stands at 1
\* and the side to move has a legal move
C14_Witness ==
  /\ pc = "loop"
  /\ running
  /\ skipped = 1
  /\ nmoves >= 1
  /\ HasMove(board, player)

\* C15: when the pass counter is 1 the side that passed is the opponent of
\* the side to move and the board is the one it passed on; when the loop has
\* ended with the counter at 2 neither side has a legal move on the board.
C15_TwoSidesPassed ==
  /\ (pc = "loop" /\ skipped = 1) =>
       DOMAIN moves = {} /\ ~HasMove(board, opponent(player))
  /\ (pc \in {"final", "done"} /\ skipped = 2) => Dead(board)

\* a game in which moves were applied has ended by two passes
C15_Witness ==
  /\ pc = "done"
  /\ skipped = 2
  /\ nmoves >= 1
  /\ running

\* C16 as stated: every step that changes the board applies a key of the
\* map of the current board and side to move, computed in the same turn,
\* with the flips the map pairs with it; unless the window was closed it is
\* the only move of that turn; the computer's move has the largest flip
\* count of the map.
C16_LegalMoveApplied ==
  [][board' # board =>
       /\ (pc = "bevents" /\ running) => waiting
       /\ moves = valid_moves(board, player)
       /\ \E c \in DOMAIN moves :
            /\ board' = make_move(board, player, c, moves[c])
            /\ pc = "white" =>
                 \A d \in DOMAIN moves : Len(moves[d]) <= Len(moves[c])]_vars

\* the discs bracketed from cell c for player p: over the 8 directions, the
\* cells before a disc of p that is reached from c over opponent discs only
BracketRuns(bd, p, c) ==
  UNION {{At(c, x[1], k) : k \in 1 .. (x[2] - 1)} :
           x \in {y \in Dirs8 \X (2 .. BOARD_SIZE) :
                    /\ At(c, y[1], y[2]) \in Cells
                    /\ bd[At(c, y[1], y[2])] = p
                    /\ \A j \in 1 .. (y[2] - 1) :
                         bd[At(c, y[1], j)] = opponent(p)}}

Range(seq) == {seq[i] : i \in 1 .. Len(seq)}

\* C17: the map valid_moves returns for a board and a player has exactly
\* the Empty cells with a bracketed run in one of the 8 directions as keys,
\* and pairs each with exactly the discs of all its bracketed runs, once
\* each; the empty map of a pass means that no Empty cell has such a run.
C17_ExactMoves ==
  /\ Fresh =>
       \A c \in Cells :
         \A runs \in {IF board[c] = EMPTY
                      THEN BracketRuns(board, player, c) ELSE {}} :
           /\ c \in DOMAIN moves <=> runs # {}
           /\ c \in DOMAIN moves =>
                /\ Range(moves[c]) = runs
                /\ Len(moves[c]) = Cardinality(runs)
  /\ (pc = "loop" /\ skipped = 1) =>
       \A c \in Cells :
         board[c] = EMPTY => BracketRuns(board, opponent(player), c) = {}

\* a map with a move whose flips lie in two directions from the move cell
C17_Witness ==
  /\ Fresh
  /\ \E c \in DOMAIN moves :
       Cardinality({f \in Range(moves[c]) :
                      /\ f[1] - c[1] \in {-1, 0, 1}
                      /\ f[2] - c[2] \in {-1, 0, 1}}) >= 2

\* C18 as stated: the loop reaches the final step after at most 60 applied
\* moves, because every applied move fills one Empty cell of the 60 that
\* the starting board has.
C18_SixtyMoves ==
  /\ nmoves <= BOARD_SIZE * BOARD_SIZE - Total(init_board)
  /\ Count(board, EMPTY) = Count(init_board, EMPTY) - nmoves

\* C19 as stated: every applied move turns its Empty move cell and only
\* opponent discs into the player's colour: the total rises by exactly 1,
\* the opponent loses at least one disc, and no disc leaves the board.
C19_MoveEffect ==
  [][nmoves' = nmoves + 1 =>
       /\ Cardinality({c \in Cells : board[c] = EMPTY /\ board'[c] = player})
            = 1
       /\ \A c \in Cells :
            board'[c] # board[c] =>
              /\ board'[c] = player
              /\ board[c] \in {EMPTY, opponent(player)}
       /\ Total(board') = Total(board) + 1
       /\ Count(board', opponent(player)) < Count(board, opponent(player))
       /\ \A c \in Cells : board[c] # EMPTY => board'[c] # EMPTY]_vars

====
